---- MODULE Spec2Model ----
(***************************************************************************)
(* Analytics propagation of react-analytics-ui.                            *)
(*                                                                         *)
(* The React tree is modelled along one root-to-leaf path: `chain` is the  *)
(* sequence of mounted scopes (AnalyticsProvider / AnalyticsContextProvider*)
(* elements), outermost first.  The value a scope hands to its subtree     *)
(* through AnalyticsReactContext is computed by ValueAt, the `track`       *)
(* closure of that value by TrackAt.  Adapters are the sinks; the adapter  *)
(* given to the provider at depth i is identified by i.                    *)
(***************************************************************************)
EXTENDS Integers, Sequences, FiniteSets, TLC

\* Bounds of the model.
MaxDepth == 3
MaxNow == 2

\* The most events handed to a delivery adapter, and the most failed sends.
MaxEvents == 2
MaxFailures == 2

\* The most messages the bridge publishes, and the most events its
\* subscription receives.
MaxPublished == 2
MaxMessages == 102

VARIABLES chain, now, outcome, control, nats, tasks, bridge, hist

vars == <<chain, now, outcome, control, nats, tasks, bridge, hist>>

\* The component tree, and the delivery adapter with its collector.
uiVars == <<chain, now, outcome, control>>

natsVars == <<nats, tasks, bridge, hist>>

(***************************************************************************)
(* AnalyticsContext: a mapping from some of the top-level keys to values.  *)
(* The key "custom" holds a mapping of its own.                            *)
(***************************************************************************)
Fields == {"view", "section", "sessionId", "userId", "channel", "appVersion"}

CustomKeys == {"x", "y"}

ContextKeys == Fields \cup {"custom"}

\* `undefined` / `{}`: both spread to nothing.
EmptyCtx == [k \in {} |-> 0]

\* Object spread { ...a, ...b }: own keys of both, b wins key by key; the
\* values are copied as they are (a nested mapping is not merged).
SpreadOuterWins(a, b) ==
    [k \in (DOMAIN a) \cup (DOMAIN b) |-> IF k \in DOMAIN a THEN a[k] ELSE b[k]]

Spread(a, b) ==
    [k \in (DOMAIN a) \cup (DOMAIN b) |-> IF k \in DOMAIN b THEN b[k] ELSE a[k]]

\* The contexts a scope mounted at depth d may contribute: nothing, one
\* top-level field, or a custom mapping with one key.  Values are tagged with
\* the depth of the contributing scope, so that every value of a resolved
\* context names the scope it came from.
OneField(d) == {[k \in {f} |-> d] : f \in Fields}

OneCustom(d) == {[k \in {"custom"} |-> [c \in {ck} |-> d]] : ck \in CustomKeys}

RichContexts(d) == {EmptyCtx} \cup OneField(d) \cup OneCustom(d)

PlainContexts(d) == {EmptyCtx}

(***************************************************************************)
(* Scopes.  adapter is the `adapter` prop of an AnalyticsProvider:         *)
(*   "none"       no adapter given                                         *)
(*   "ok"         adapter.track is a function that returns                 *)
(*   "throws"     adapter.track is a function that throws                  *)
(*   "malformed"  adapter.track is not a function                          *)
(***************************************************************************)
AdapterKinds == {"none", "ok", "throws", "malformed"}

\* Subsets of them: adapters whose track is a function, an adapter that
\* works, and a provider with or without one.
CallableAdapters == {"ok", "throws"}

OkAdapters == {"ok"}

OptionalAdapters == {"none", "ok"}

\* `enabled` left at its default, `retry` left at its default.
OnlyTrue == {TRUE}

AnalyticsProviderScope(adapter, enabled, context) ==
    [kind |-> "AnalyticsProvider", adapter |-> adapter, enabled |-> enabled,
     context |-> context]

AnalyticsContextProviderScope(context) ==
    [kind |-> "AnalyticsContextProvider", adapter |-> "none", enabled |-> TRUE,
     context |-> context]

\* useContext(AnalyticsReactContext) with no provider above.
Undefined == [defined |-> FALSE, adapter |-> 0, context |-> EmptyCtx]

\* The value scope i of chain ch provides to its subtree (i = 0: no provider).
\* adapter is the depth of the provider owning the adapter, 0 for none.
RECURSIVE ValueAt(_, _)
ValueAt(ch, i) ==
    IF i = 0 THEN Undefined
    ELSE IF ch[i].kind = "AnalyticsProvider"
    THEN [defined |-> TRUE,
          adapter |-> IF ch[i].adapter = "none" THEN 0 ELSE i,
          context |-> ch[i].context]
    ELSE LET parentAnalytics == ValueAt(ch, i - 1)
         IN  [defined |-> TRUE,
              adapter |-> parentAnalytics.adapter,
              context |-> Spread(parentAnalytics.context, ch[i].context)]

\* What one call of a track closure did.
Returned == [calls |-> <<>>, finalized |-> <<>>, raised |-> FALSE, diag |-> <<>>]

FullEventKeepsStamp(scope, event, t) ==
    LET fullEvent == Spread(event,
                            [timestamp |-> t,
                             context |-> Spread(scope.context, event.context)])
    IN  IF "timestamp" \in DOMAIN event
        THEN [fullEvent EXCEPT !["timestamp"] = event.timestamp]
        ELSE fullEvent

\* The full event an enabled AnalyticsProvider builds from a partial event:
\* { ...event, timestamp: Date.now(), context: {...providerContext,
\* ...event.context} }, where t is the value Date.now() returns.  A timestamp
\* the caller put in the event is overwritten.
FullEvent(scope, event, t) ==
    Spread(event,
           [timestamp |-> t,
            context |-> Spread(scope.context, event.context)])

ProviderTrackFinalizesFirst(scope, i, event, t) ==
    LET fullEvent == FullEvent(scope, event, t)
    IN  IF ~scope.enabled
        THEN [calls |-> <<>>, finalized |-> <<fullEvent>>, raised |-> FALSE,
              diag |-> <<>>]
        ELSE IF scope.adapter \in {"ok", "throws"}
        THEN [calls |-> <<[adapter |-> i, event |-> fullEvent]>>,
              finalized |-> <<fullEvent>>,
              raised |-> scope.adapter = "throws", diag |-> <<>>]
        ELSE [calls |-> <<>>, finalized |-> <<fullEvent>>, raised |-> FALSE,
              diag |-> <<"not delivered">>]

ProviderTrackCallsBlindly(scope, i, event, t) ==
    IF ~scope.enabled THEN Returned
    ELSE LET fullEvent == FullEvent(scope, event, t)
         IN  IF scope.adapter # "none"
             THEN [calls |-> IF scope.adapter = "malformed" THEN <<>>
                             ELSE <<[adapter |-> i, event |-> fullEvent]>>,
                   finalized |-> <<fullEvent>>,
                   raised |-> scope.adapter \in {"throws", "malformed"},
                   diag |-> <<>>]
             ELSE [calls |-> <<>>, finalized |-> <<fullEvent>>,
                   raised |-> FALSE, diag |-> <<"No adapter, logging">>]

\* AnalyticsProvider's track closure, for the provider at depth i.
ProviderTrack(scope, i, event, t) ==
    IF ~scope.enabled THEN Returned
    ELSE LET fullEvent == FullEvent(scope, event, t)
         IN  IF scope.adapter # "none"
             THEN IF scope.adapter # "malformed"
                  THEN [calls |-> <<[adapter |-> i, event |-> fullEvent]>>,
                        finalized |-> <<fullEvent>>,
                        raised |-> scope.adapter = "throws",
                        diag |-> <<>>]
                  ELSE [calls |-> <<>>, finalized |-> <<fullEvent>>,
                        raised |-> FALSE,
                        diag |-> <<"adapter.track is not a function">>]
             ELSE [calls |-> <<>>, finalized |-> <<fullEvent>>,
                   raised |-> FALSE, diag |-> <<"No adapter, logging">>]

ContextProviderEventDropsOwn(parentAnalytics, additionalContext, event) ==
    Spread(event, [context |-> Spread(parentAnalytics.context, event.context)])

\* The event AnalyticsContextProvider's track closure hands to its parent:
\* { ...event, context: {...parentAnalytics.context, ...additionalContext,
\* ...event.context} }.
ContextProviderEvent(parentAnalytics, additionalContext, event) ==
    Spread(event,
           [context |-> Spread(Spread(parentAnalytics.context, additionalContext),
                               event.context)])

\* r1 then r2, unless r1 ended by an exception.
Then(r1, r2) ==
    IF r1.raised THEN r1
    ELSE [calls |-> r1.calls \o r2.calls,
          finalized |-> r1.finalized \o r2.finalized,
          raised |-> r2.raised,
          diag |-> r1.diag \o r2.diag]

RECURSIVE TrackAtBubbles(_, _, _, _)
TrackAtBubbles(ch, i, event, t) ==
    IF ch[i].kind = "AnalyticsProvider"
    THEN IF i = 1 THEN ProviderTrack(ch[i], i, event, t)
         ELSE Then(ProviderTrack(ch[i], i, event, t),
                   TrackAtBubbles(ch, i - 1, event, t))
    ELSE LET parentAnalytics == ValueAt(ch, i - 1)
         IN  IF ~parentAnalytics.defined
             THEN [Returned EXCEPT
                     !.diag = <<"used without parent AnalyticsProvider">>]
             ELSE TrackAtBubbles(ch, i - 1,
                          ContextProviderEvent(parentAnalytics, ch[i].context, event),
                          t)

RECURSIVE TrackAtSkipsParent(_, _, _, _)
TrackAtSkipsParent(ch, i, event, t) ==
    IF ch[i].kind = "AnalyticsProvider"
    THEN ProviderTrack(ch[i], i, event, t)
    ELSE LET parentAnalytics == ValueAt(ch, i - 1)
         IN  IF ~parentAnalytics.defined
             THEN [Returned EXCEPT
                     !.diag = <<"used without parent AnalyticsProvider">>]
             ELSE TrackAtSkipsParent(ch, 1,
                          ContextProviderEvent(parentAnalytics, ch[i].context, event),
                          t)

\* The track closure of the value provided by scope i (i >= 1).
RECURSIVE TrackAt(_, _, _, _)
TrackAt(ch, i, event, t) ==
    IF ch[i].kind = "AnalyticsProvider"
    THEN ProviderTrack(ch[i], i, event, t)
    ELSE LET parentAnalytics == ValueAt(ch, i - 1)
         IN  IF ~parentAnalytics.defined
             THEN [Returned EXCEPT
                     !.diag = <<"used without parent AnalyticsProvider">>]
             ELSE TrackAt(ch, i - 1,
                          ContextProviderEvent(parentAnalytics, ch[i].context, event),
                          t)

\* The accessors, called by a component below the innermost scope.
useOptionalAnalytics(ch) == ValueAt(ch, Len(ch))

useAnalyticsNeverThrows(ch) ==
    [threw |-> FALSE, value |-> ValueAt(ch, Len(ch))]

useAnalyticsNeedsProvider(ch) ==
    LET context == ValueAt(ch, Len(ch))
    IN  [threw |-> ~\E i \in 1..Len(ch) : ch[i].kind = "AnalyticsProvider",
         value |-> context]

useAnalytics(ch) ==
    LET context == ValueAt(ch, Len(ch))
    IN  [threw |-> ~context.defined, value |-> context]

(***************************************************************************)
(* State.                                                                  *)
(*   chain    the mounted scopes, outermost first                          *)
(*   now      Date.now()                                                   *)
(*   outcome  what the most recent interaction did; it describes handlers  *)
(*            of the current render and is reset when the tree changes     *)
(*   control  the control mounted below the innermost scope                *)
(*   nats     the NatsAdapter object (config, eventQueue, isOnline)        *)
(*   tasks    the adapter's pending asynchronous work                      *)
(*   bridge   the collector behind bridgeUrl                               *)
(*   hist     what has been observed of the adapter so far                 *)
(***************************************************************************)
NoProps ==
    [disableAnalytics |-> FALSE, disabled |-> FALSE, handler |-> FALSE,
     trackOnChange |-> FALSE]

\* op            the handler that ran
\* tracked       calls of analytics.track made by the handler
\* calls         the adapter.track invocations, in order
\* finalized     the full events built (timestamp and context assigned)
\* raised/error  whether the handler ended by an exception, and which
\* diag          console.warn / console.error / fallback log lines
\* handlerCalls  calls of the caller-supplied handler
\* props         the props the handler closed over
\* invokedAt     Date.now() when the handler was entered
\* receivedAt    Date.now() when the handler returned (after any adapter call)
\* stamped       the caller put a timestamp of its own in the partial event
\* prevStamp     the timestamp of the event an adapter received last before
\*               this handler ran, since the tree last changed; -1 if none
\* types         the eventType of each analytics.track call of the handler
\* wasOpen       the control was open (DatePicker calendar, Popup) when the
\*               handler was entered
\* abandoned     a track call made before this handler ran, since the tree
\*               last changed, was abandoned for an adapter without a
\*               callable track
Idle ==
    [op |-> "none", calls |-> <<>>, finalized |-> <<>>, raised |-> FALSE,
     error |-> "", diag |-> <<>>, tracked |-> 0, handlerCalls |-> 0,
     props |-> NoProps, invokedAt |-> 0, receivedAt |-> 0, stamped |-> FALSE,
     prevStamp |-> -1, types |-> <<>>, wasOpen |-> FALSE,
     abandoned |-> FALSE]

AdapterError == "adapter.track threw"

MissingProviderError == "useAnalytics must be used within an AnalyticsProvider"

NoControl == [kind |-> "none"]

InitUI ==
    /\ chain = <<>>
    /\ now = 0
    /\ outcome = Idle
    /\ control = NoControl

\* new NatsAdapter(config) has not run yet.
NoAdapter ==
    [created |-> FALSE, retry |-> TRUE, maxRetries |-> 0, eventQueue |-> <<>>,
     isOnline |-> TRUE]

\* startup  the checkConnection() call of the constructor: "none" before
\*          construction, "pending" while its GET /health is in flight,
\*          then "ok" or "failed"
\* posts    the track invocations awaiting the answer to their POST
\* timers   the retryQueue invocations awaiting their setTimeout
\* probes   the retryQueue invocations awaiting their checkConnection()
NoTasks == [startup |-> "none", posts |-> {}, timers |-> 0, probes |-> 0]

\* The POST /analytics the bridge handled last: none yet.
NoPost == [body |-> EmptyCtx, connection |-> "null", status |-> 0,
           published |-> <<>>]

\* reachable       the collector answers requests
\* received        the events whose POST it answered 2xx, in order
\* natsConnection  the bridge's connection handle: "null" until connect()
\*                 has resolved, then "open", and "closed" once the
\*                 connection has been closed (the handle is kept)
\* subject         the messages the bridge has published, in order
\* post            the POST /analytics handled last: its body, the
\*                 connection it met, the status answered and what it
\*                 published
\* recentEvents    the list GET /analytics/recent returns
\* heard           the events parsed from the messages of the bridge's
\*                 subscription, in the order received
\* skipped         a message JSON.parse rejected has been skipped
BridgeUp ==
    [reachable |-> TRUE, received |-> <<>>, natsConnection |-> "null",
     subject |-> <<>>, post |-> NoPost, recentEvents |-> <<>>,
     heard |-> <<>>, skipped |-> FALSE]

\* offered    events handed to the configured adapter so far: 1..offered
\* composite  those handed to compositeAdapter.track
\* sunk       those handed to the Storybook action sink
\* passed     those passed to NatsAdapter.track by a caller
\* sends      per event, the POSTs issued for it
\* enqueued   the events pushed on eventQueue, in order
\* failures   the sends that ended in track's catch block
\* last       the answer to the send completed last, and how the promise of
\*            that track invocation settled
\* events     the event objects handed to NatsAdapter.track or to the
\*            composite adapter: events[e] is the object of event e
\* bodies     per event, the request bodies of the POSTs issued for it
\* draining   some retryQueue invocation has taken a non-empty snapshot
\* fouled     a send answered 2xx was treated as failed, or a send failed
\*            after the first non-empty snapshot was taken
NoHistory ==
    [offered |-> 0, composite |-> {}, sunk |-> {}, passed |-> {},
     sends |-> [e \in 1..MaxEvents |-> 0], enqueued |-> <<>>, failures |-> 0,
     last |-> [response |-> "none", promise |-> "none"],
     events |-> <<>>, bodies |-> [e \in 1..MaxEvents |-> {}],
     draining |-> FALSE, fouled |-> FALSE]

InitNats ==
    /\ nats = NoAdapter
    /\ tasks = NoTasks
    /\ bridge = BridgeUp
    /\ hist = NoHistory

Init == InitUI /\ InitNats

\* <AnalyticsProvider adapter enabled context> mounts below the innermost scope.
EnterProvider(adapters, enableds, contexts) ==
    /\ Len(chain) < MaxDepth
    /\ control = NoControl
    /\ \E a \in adapters, en \in enableds, c \in contexts :
         chain' = Append(chain, AnalyticsProviderScope(a, en, c))
    /\ outcome' = Idle
    /\ UNCHANGED <<now, control>>
    /\ UNCHANGED natsVars

\* <AnalyticsContextProvider context> mounts below the innermost scope.
EnterContextProvider(contexts) ==
    /\ Len(chain) < MaxDepth
    /\ control = NoControl
    /\ \E c \in contexts :
         chain' = Append(chain, AnalyticsContextProviderScope(c))
    /\ outcome' = Idle
    /\ UNCHANGED <<now, control>>
    /\ UNCHANGED natsVars

\* The innermost scope unmounts.
ExitScope ==
    /\ Len(chain) > 0
    /\ control = NoControl
    /\ chain' = SubSeq(chain, 1, Len(chain) - 1)
    /\ outcome' = Idle
    /\ UNCHANGED <<now, control>>
    /\ UNCHANGED natsVars

\* Time passes.
Tick ==
    /\ now < MaxNow
    /\ now' = now + 1
    /\ UNCHANGED <<chain, outcome, control>>
    /\ UNCHANGED natsVars

\* The partial event of a component that tracks by itself.
CustomEvent == [eventType |-> "click", componentType |-> "custom-button",
                metadata |-> EmptyCtx, context |-> EmptyCtx]

\* A timestamp a caller computed long before: it lies outside every interval
\* of the model's clock.
StaleStamp == MaxNow + 1

\* The same event built by a caller that (against the parameter's type)
\* leaves a timestamp of its own in it.
StampedEvent == Spread(CustomEvent, [timestamp |-> StaleStamp])

\* The events a tracking component passes, and the time a track call may
\* take on either side of Date.now().
PlainEvents == {CustomEvent}

ClockEvents == {CustomEvent, StampedEvent}

NoDelay == {0}

Delays == {0, 1}

\* The timestamp of the event an adapter received last, up to and including
\* the handler that `outcome` describes.
LastStamp ==
    IF outcome.calls # <<>>
    THEN outcome.calls[Len(outcome.calls)].event.timestamp
    ELSE outcome.prevStamp

\* console.error('adapter.track is not a function!') is among the lines.
Abandoned(diag) ==
    \E j \in 1..Len(diag) : diag[j] = "adapter.track is not a function"

\* A track call up to and including the handler that `outcome` describes
\* was abandoned for a malformed adapter.
EverAbandoned == outcome.abandoned \/ Abandoned(outcome.diag)

\* An AnalyticsProvider is rendered again with another adapter prop: its
\* track closure is rebuilt (useCallback depends on adapter).
ReplaceAdapter(adapters) ==
    /\ control = NoControl
    /\ \E i \in 1..Len(chain), a \in adapters :
         /\ chain[i].kind = "AnalyticsProvider"
         /\ chain[i].adapter # a
         /\ chain' = [chain EXCEPT ![i].adapter = a]
    /\ outcome' = [Idle EXCEPT !.prevStamp = LastStamp,
                               !.abandoned = EverAbandoned]
    /\ UNCHANGED <<now, control>>
    /\ UNCHANGED natsVars

\* A component below the innermost scope does
\*   const { track } = useAnalytics();  ...  track({...})
\* The clock may advance by d1 between the call and the provider's
\* Date.now(), and by d2 between Date.now() and the adapter's return.
Track(events, delays) ==
    /\ \E event \in events, d1 \in delays, d2 \in delays :
         LET analytics == useAnalytics(chain)
             t == now + d1
             began == [Idle EXCEPT !.op = "track", !.invokedAt = now,
                                   !.receivedAt = t + d2,
                                   !.stamped = "timestamp" \in DOMAIN event,
                                   !.prevStamp = LastStamp,
                                   !.abandoned = EverAbandoned]
         IN  /\ t + d2 <= MaxNow
             /\ now' = t + d2
             /\ IF analytics.threw
                THEN outcome' = [began EXCEPT !.raised = TRUE,
                                              !.error = MissingProviderError]
                ELSE IF ~analytics.value.defined
                THEN outcome' = [began EXCEPT !.raised = TRUE,
                                              !.error = "TypeError"]
                ELSE LET r == TrackAt(chain, Len(chain), event, t)
                     IN  outcome' = [began EXCEPT
                                       !.tracked = 1,
                                       !.types = <<event.eventType>>,
                                       !.calls = r.calls,
                                       !.finalized = r.finalized,
                                       !.raised = r.raised,
                                       !.error = IF r.raised THEN AdapterError
                                                 ELSE "",
                                       !.diag = r.diag]
    /\ UNCHANGED <<chain, control>>
    /\ UNCHANGED natsVars

(***************************************************************************)
(* Controls.  One control is mounted below the innermost scope; its record *)
(* holds the component's own state (useState / useRef) and, for the Popup, *)
(* the isOpen prop its parent owns.  The other props a handler closes over *)
(* (disableAnalytics, disabled, the caller's handler, trackOnChange) are   *)
(* those of the latest render and are drawn per interaction.               *)
(***************************************************************************)
InputValues == {"", "a"}

DateValues == {"null", "2024-01-15"}

CloseReasons == {"close-button", "overlay-click", "escape-key"}

Props(da, dis, h, toc) ==
    [disableAnalytics |-> da, disabled |-> dis, handler |-> h,
     trackOnChange |-> toc]

PartialEvent(eventType, componentType, metadata) ==
    [eventType |-> eventType, componentType |-> componentType,
     metadata |-> metadata, context |-> EmptyCtx]

NotTracked == [r |-> Returned, tracked |-> 0, types |-> <<>>]

EmitterTrackUnguarded(ch, allowed, event, t) ==
    IF useOptionalAnalytics(ch).defined
    THEN [r |-> TrackAt(ch, Len(ch), event, t), tracked |-> 1,
          types |-> <<event.eventType>>]
    ELSE NotTracked

\* if (<allowed> && analytics) analytics.track(event): the body of trackEvent
\* (TextBox, DatePicker, Popup) and the first statement of Button.handleClick.
EmitterTrack(ch, allowed, event, t) ==
    LET analytics == useOptionalAnalytics(ch)
    IN  IF allowed /\ analytics.defined
        THEN [r |-> TrackAt(ch, Len(ch), event, t), tracked |-> 1,
              types |-> <<event.eventType>>]
        ELSE NotTracked

\* Two trackEvent calls in a row; the second is not reached if the first raises.
EmitThen(e1, e2) ==
    IF e1.r.raised THEN e1
    ELSE [r |-> Then(e1.r, e2.r), tracked |-> e1.tracked + e2.tracked,
          types |-> e1.types \o e2.types]

\* The calendar of the DatePicker, or the Popup, is open.
IsOpen == control.kind \in {"datepicker", "popup"} /\ control.isOpen

\* The outcome of a handler that made the track calls e and then, unless
\* they raised, called the caller's handler `after` times; `before` counts
\* the calls of the caller's handler made before tracking.
HandlerOutcome(op, props, e, before, after) ==
    [op |-> op, calls |-> e.r.calls, finalized |-> e.r.finalized,
     raised |-> e.r.raised,
     error |-> IF e.r.raised THEN AdapterError ELSE "",
     diag |-> e.r.diag, tracked |-> e.tracked,
     handlerCalls |-> before + (IF e.r.raised THEN 0 ELSE after),
     props |-> props, invokedAt |-> now, receivedAt |-> now, stamped |-> FALSE,
     prevStamp |-> LastStamp, types |-> e.types, wasOpen |-> IsOpen,
     abandoned |-> EverAbandoned]

Calls(h) == IF h THEN 1 ELSE 0

MountButton ==
    /\ control = NoControl
    /\ control' = [kind |-> "button"]
    /\ outcome' = Idle
    /\ UNCHANGED <<chain, now>>
    /\ UNCHANGED natsVars

\* TextBox mounts; the mount effect copies the input's value to startValueRef.
MountTextBox ==
    /\ control = NoControl
    /\ \E v \in InputValues :
         control' = [kind |-> "textbox", isFocused |-> FALSE, value |-> v,
                     startValue |-> v]
    /\ outcome' = Idle
    /\ UNCHANGED <<chain, now>>
    /\ UNCHANGED natsVars

MountDatePicker ==
    /\ control = NoControl
    /\ control' = [kind |-> "datepicker", isOpen |-> FALSE]
    /\ outcome' = Idle
    /\ UNCHANGED <<chain, now>>
    /\ UNCHANGED natsVars

Unmount ==
    /\ control # NoControl
    /\ control' = NoControl
    /\ outcome' = Idle
    /\ UNCHANGED <<chain, now>>
    /\ UNCHANGED natsVars

\* Button.handleClick
ButtonClick ==
    /\ control.kind = "button"
    /\ \E da \in BOOLEAN, dis \in BOOLEAN, h \in BOOLEAN :
         LET e == EmitterTrack(chain, ~da /\ ~dis,
                               PartialEvent("click", "button", EmptyCtx), now)
         IN  outcome' = HandlerOutcome("Button.click", Props(da, dis, h, FALSE),
                                       e, 0, Calls(h))
    /\ UNCHANGED <<chain, now, control>>
    /\ UNCHANGED natsVars

\* TextBox.handleFocus
TextBoxFocus ==
    /\ control.kind = "textbox" /\ ~control.isFocused
    /\ \E da \in BOOLEAN, dis \in BOOLEAN, h \in BOOLEAN :
         LET e == EmitterTrack(chain, ~da /\ ~dis,
                               PartialEvent("focus", "textbox", EmptyCtx), now)
         IN  outcome' = HandlerOutcome("TextBox.focus", Props(da, dis, h, FALSE),
                                       e, 0, Calls(h))
    /\ control' = [control EXCEPT !.isFocused = TRUE,
                                  !.startValue = control.value]
    /\ UNCHANGED <<chain, now>>
    /\ UNCHANGED natsVars

\* TextBox.handleBlur
TextBoxBlur ==
    /\ control.kind = "textbox" /\ control.isFocused
    /\ \E da \in BOOLEAN, dis \in BOOLEAN, h \in BOOLEAN :
         LET endValue == control.value
             metadata == [valueChanged |-> control.startValue # endValue,
                          valueLength |-> Len(endValue),
                          isEmpty |-> Len(endValue) = 0]
             e == EmitterTrack(chain, ~da /\ ~dis,
                               PartialEvent("blur", "textbox", metadata), now)
         IN  outcome' = HandlerOutcome("TextBox.blur", Props(da, dis, h, FALSE),
                                       e, 0, Calls(h))
    /\ control' = [control EXCEPT !.isFocused = FALSE]
    /\ UNCHANGED <<chain, now>>
    /\ UNCHANGED natsVars

\* The user edits the input: TextBox.handleChange
TextBoxChange ==
    /\ control.kind = "textbox" /\ control.isFocused
    /\ \E v \in InputValues \ {control.value} :
       \E da \in BOOLEAN, dis \in BOOLEAN, h \in BOOLEAN, toc \in BOOLEAN :
         LET e == IF toc
                  THEN EmitterTrack(chain, ~da /\ ~dis,
                                    PartialEvent("change", "textbox",
                                                 [valueLength |-> Len(v)]), now)
                  ELSE NotTracked
         IN  /\ outcome' = HandlerOutcome("TextBox.change", Props(da, dis, h, toc),
                                          e, 0, Calls(h))
             /\ control' = [control EXCEPT !.value = v]
    /\ UNCHANGED <<chain, now>>
    /\ UNCHANGED natsVars

\* DatePicker.handleOpen: a click on the text input.
DatePickerOpen ==
    /\ control.kind = "datepicker"
    /\ \E da \in BOOLEAN, dis \in BOOLEAN :
         LET e == IF ~dis
                  THEN EmitterTrack(chain, ~da /\ ~dis,
                                    PartialEvent("open", "datepicker", EmptyCtx), now)
                  ELSE NotTracked
         IN  /\ outcome' = HandlerOutcome("DatePicker.open",
                                          Props(da, dis, FALSE, FALSE), e, 0, 0)
             /\ control' = [control EXCEPT !.isOpen = IF dis THEN @ ELSE TRUE]
    /\ UNCHANGED <<chain, now>>
    /\ UNCHANGED natsVars

\* handleClickOutside: a mousedown outside the container.
DatePickerClickOutside ==
    /\ control.kind = "datepicker"
    /\ \E da \in BOOLEAN, dis \in BOOLEAN :
         LET e == IF control.isOpen
                  THEN EmitterTrack(chain, ~da /\ ~dis,
                                    PartialEvent("close", "datepicker", EmptyCtx), now)
                  ELSE NotTracked
         IN  outcome' = HandlerOutcome("DatePicker.clickOutside",
                                       Props(da, dis, FALSE, FALSE), e, 0, 0)
    /\ control' = [control EXCEPT !.isOpen = FALSE]
    /\ UNCHANGED <<chain, now>>
    /\ UNCHANGED natsVars

\* DatePicker.handleDateChange: the native date input, rendered while the
\* calendar is open and the picker is not disabled, changes.  onChange is
\* called first; handleClose (setIsOpen(false), 'close') follows 'select'.
DatePickerSelect ==
    /\ control.kind = "datepicker" /\ control.isOpen
    /\ \E da \in BOOLEAN, h \in BOOLEAN, d \in DateValues :
         LET select == EmitterTrack(chain, ~da,
                                    PartialEvent("select", "datepicker",
                                                 [newDate |-> d]), now)
             close == EmitterTrack(chain, ~da,
                                   PartialEvent("close", "datepicker", EmptyCtx), now)
         IN  /\ outcome' = HandlerOutcome("DatePicker.select",
                                          Props(da, FALSE, h, FALSE),
                                          EmitThen(select, close), Calls(h), 0)
             /\ control' = [control EXCEPT
                              !.isOpen = IF select.r.raised THEN @ ELSE FALSE]
    /\ UNCHANGED <<chain, now>>
    /\ UNCHANGED natsVars

PopupEffectUnguarded(popup, isOpen, da) ==
    IF isOpen
    THEN [popup |-> [popup EXCEPT !.isOpen = isOpen, !.hasTrackedOpen = TRUE,
                                  !.openedAt = now, !.closed = "no"],
          e |-> EmitterTrack(chain, ~da, PartialEvent("open", "popup", EmptyCtx),
                             now)]
    ELSE [popup |-> [popup EXCEPT !.isOpen = isOpen, !.hasTrackedOpen = FALSE],
          e |-> NotTracked]

\* The Popup's "Track open event" effect, run after a render with isOpen.
PopupEffect(popup, isOpen, da) ==
    IF isOpen /\ ~popup.hasTrackedOpen
    THEN [popup |-> [popup EXCEPT !.isOpen = isOpen, !.hasTrackedOpen = TRUE,
                                  !.openedAt = now, !.closed = "no"],
          e |-> EmitterTrack(chain, ~da, PartialEvent("open", "popup", EmptyCtx),
                             now)]
    ELSE IF ~isOpen /\ popup.hasTrackedOpen
    THEN [popup |-> [popup EXCEPT !.isOpen = isOpen, !.hasTrackedOpen = FALSE],
          e |-> NotTracked]
    ELSE [popup |-> [popup EXCEPT !.isOpen = isOpen], e |-> NotTracked]

\* isOpen is the prop of the latest render; hasTrackedOpen and openedAt are
\* the refs; closed tells whether handleClose has run since the popup was
\* last opened and whether it tracked: "no", "tracked" or "untracked".
NewPopup ==
    [kind |-> "popup", isOpen |-> FALSE, hasTrackedOpen |-> FALSE, openedAt |-> 0,
     closed |-> "no"]

\* Popup mounts with the isOpen its parent gives it; the effect runs.
MountPopup ==
    /\ control = NoControl
    /\ \E isOpen \in BOOLEAN, da \in BOOLEAN :
         LET x == PopupEffect(NewPopup, isOpen, da)
         IN  /\ control' = x.popup
             /\ outcome' = HandlerOutcome("Popup.effect",
                                          Props(da, FALSE, FALSE, FALSE), x.e, 0, 0)
    /\ UNCHANGED <<chain, now>>
    /\ UNCHANGED natsVars

\* The parent renders the Popup again, with the same or another isOpen and
\* possibly other props (trackEvent changes identity); the effect runs.
PopupRender ==
    /\ control.kind = "popup"
    /\ \E isOpen \in BOOLEAN, da \in BOOLEAN :
         LET x == PopupEffect(control, isOpen, da)
         IN  /\ control' = x.popup
             /\ outcome' = HandlerOutcome("Popup.effect",
                                          Props(da, FALSE, FALSE, FALSE), x.e, 0, 0)
    /\ UNCHANGED <<chain, now>>
    /\ UNCHANGED natsVars

\* Popup.handleClose(reason): the close button, an overlay click or Escape,
\* while the popup is rendered.  onClose is a required prop.
PopupClose ==
    /\ control.kind = "popup" /\ control.isOpen
    /\ \E reason \in CloseReasons, da \in BOOLEAN :
         LET timeOpen == IF control.openedAt # 0 THEN now - control.openedAt ELSE 0
             e == EmitterTrack(chain, ~da,
                               PartialEvent("close", "popup",
                                            [reason |-> reason,
                                             timeOpenMs |-> timeOpen]), now)
         IN  /\ outcome' = HandlerOutcome("Popup.close",
                                          Props(da, FALSE, TRUE, FALSE), e, 0, 1)
             /\ control' = [control EXCEPT
                              !.closed = IF e.tracked > 0 \/ @ = "tracked"
                                         THEN "tracked" ELSE "untracked"]
    /\ UNCHANGED <<chain, now>>
    /\ UNCHANGED natsVars

NextControls ==
    \/ EnterProvider(CallableAdapters, BOOLEAN, PlainContexts(Len(chain) + 1))
    \/ EnterContextProvider(PlainContexts(Len(chain) + 1))
    \/ ExitScope
    \/ Track(PlainEvents, NoDelay)
    \/ MountButton
    \/ MountTextBox
    \/ MountDatePicker
    \/ MountPopup
    \/ Unmount
    \/ ButtonClick
    \/ TextBoxFocus
    \/ TextBoxBlur
    \/ TextBoxChange
    \/ DatePickerOpen
    \/ DatePickerClickOutside
    \/ DatePickerSelect
    \/ PopupRender
    \/ PopupClose

SpecControls == Init /\ [][NextControls]_vars

(***************************************************************************)
(* NatsAdapter.  Events are identified by the order in which callers hand  *)
(* them over: 1, 2, ...  An asynchronous method runs from one await to the *)
(* next without interleaving, so each action below is one such stretch.    *)
(* The answer to a request is taken together with the reading of its body  *)
(* (response.text(), response.json()): nothing the adapter does in between *)
(* touches its state.                                                      *)
(***************************************************************************)
\* The maxRetries given to createNatsAdapter in this model.
ConfiguredMaxRetries == 1

\* Answers to POST /analytics: a 2xx status with a JSON body, a 2xx status
\* with a body that is not JSON (empty, as with 204), another status, or no
\* answer at all (fetch rejects).
PostAnswers == {"2xx-json", "2xx-other", "non-2xx", "network-error"}

\* Answers to GET /health.
HealthAnswers == {"2xx", "non-2xx", "network-error"}

\* What the bridge of this repository answers: /health is always 200; POST
\* /analytics is 200 with a JSON body, or 503, 400 or 500.
BridgeHealthAnswers == {"2xx", "network-error"}

BridgePostAnswers == {"2xx-json", "non-2xx", "network-error"}

\* The bridge with its broker connected and well-formed events only.
OutagePostAnswers == {"2xx-json", "network-error"}

\* An unreachable collector answers nothing; a reachable one answers.
Answerable(answers) ==
    IF bridge.reachable THEN answers \ {"network-error"}
    ELSE answers \cap {"network-error"}

\* checkConnection(): isOnline becomes response.ok, false when fetch rejects.
CheckConnection(answer) == answer = "2xx"

NatsTrackPostsOnlyOnline(adapter, startup, event, by, rest) ==
    IF adapter.isOnline /\ startup # "pending"
    THEN {[event |-> event, by |-> by, rest |-> rest,
           online |-> adapter.isOnline, startup |-> startup]}
    ELSE {}

\* track(event) up to its first await: the POSTs it issues.  `by` is the
\* caller ("caller", or "retryQueue" with the events still to re-send in
\* `rest`); online and startup record isOnline and the state of the startup
\* probe at that moment.
NatsTrackPosts(adapter, startup, event, by, rest) ==
    {[event |-> event, by |-> by, rest |-> rest,
      online |-> adapter.isOnline, startup |-> startup]}

\* retryQueue() up to its first await: 1 if it goes on to wait, 0 if it
\* returns because the queue is empty.
RetryQueueStarts(queue) == IF Len(queue) = 0 THEN 0 ELSE 1

TrackCompletionRethrows(adapter, event, answer) ==
    IF answer = "2xx-json"
    THEN [eventQueue |-> adapter.eventQueue, retryQueue |-> 0,
          promise |-> "resolved", failed |-> FALSE]
    ELSE [eventQueue |-> adapter.eventQueue, retryQueue |-> 0,
          promise |-> "rejected", failed |-> TRUE]

TrackCompletionDrops(adapter, event, answer) ==
    IF answer = "2xx-json"
    THEN [eventQueue |-> adapter.eventQueue, retryQueue |-> 0,
          promise |-> "resolved", failed |-> FALSE]
    ELSE [eventQueue |-> adapter.eventQueue,
          retryQueue |-> IF adapter.retry
                         THEN RetryQueueStarts(adapter.eventQueue) ELSE 0,
          promise |-> "resolved", failed |-> TRUE]

TrackCompletionAlwaysQueues(adapter, event, answer) ==
    IF answer = "2xx-json"
    THEN [eventQueue |-> adapter.eventQueue, retryQueue |-> 0,
          promise |-> "resolved", failed |-> FALSE]
    ELSE LET queue == Append(adapter.eventQueue, event)
         IN  [eventQueue |-> queue, retryQueue |-> RetryQueueStarts(queue),
              promise |-> "resolved", failed |-> TRUE]

TrackCompletionRequeuesAtFront(adapter, event, answer) ==
    IF answer = "2xx-json"
    THEN [eventQueue |-> adapter.eventQueue, retryQueue |-> 0,
          promise |-> "resolved", failed |-> FALSE]
    ELSE IF adapter.retry
    THEN LET queue == <<event>> \o adapter.eventQueue
         IN  [eventQueue |-> queue, retryQueue |-> RetryQueueStarts(queue),
              promise |-> "resolved", failed |-> TRUE]
    ELSE [eventQueue |-> adapter.eventQueue, retryQueue |-> 0,
          promise |-> "resolved", failed |-> TRUE]

\* track(event) from the answer to its POST to its end.  Everything after
\* fetch is inside try: a rejected fetch, a status that is not ok and a body
\* response.json() cannot parse all end in the catch block, which pushes the
\* event and calls retryQueue() when config.retry is set, and returns.
TrackCompletion(adapter, event, answer) ==
    IF answer = "2xx-json"
    THEN [eventQueue |-> adapter.eventQueue, retryQueue |-> 0,
          promise |-> "resolved", failed |-> FALSE]
    ELSE IF adapter.retry
    THEN LET queue == Append(adapter.eventQueue, event)
         IN  [eventQueue |-> queue, retryQueue |-> RetryQueueStarts(queue),
              promise |-> "resolved", failed |-> TRUE]
    ELSE [eventQueue |-> adapter.eventQueue, retryQueue |-> 0,
          promise |-> "resolved", failed |-> TRUE]

DrainSnapshotKeepsQueue(queue) == [eventsToRetry |-> queue, eventQueue |-> queue]

\* const eventsToRetry = [...this.eventQueue]; this.eventQueue = [];
DrainSnapshot(queue) == [eventsToRetry |-> queue, eventQueue |-> <<>>]

RetryAfterProbeIgnoresOffline(queue, isOnline) == DrainSnapshot(queue)

\* retryQueue() after its checkConnection(): if (!this.isOnline) return;
\* otherwise the snapshot is taken.
RetryAfterProbe(queue, isOnline) ==
    IF ~isOnline THEN [eventsToRetry |-> <<>>, eventQueue |-> queue]
    ELSE DrainSnapshot(queue)

\* The full event a provider hands to its adapter at time t: the partial
\* event of a component without analyticsId, finalized.
OfferedEvent(t) ==
    FullEvent(AnalyticsProviderScope("ok", TRUE, EmptyCtx),
              Spread(CustomEvent, [componentId |-> "undefined"]), t)

\* The keys that may hold undefined (componentId?: string).
OptionalKeys == {"componentId"}

\* JSON.stringify(object): a property whose value is undefined is left out.
JsonStringify(object) ==
    [k \in {x \in DOMAIN object :
                ~(x \in OptionalKeys /\ object[x] = "undefined")} |-> object[k]]

PostBodyRestamps(h, post) ==
    JsonStringify(IF post.by = "retryQueue"
                  THEN [h.events[post.event] EXCEPT !.timestamp = now]
                  ELSE h.events[post.event])

\* body: JSON.stringify(event), of the object the track invocation was given.
PostBody(h, post) == JsonStringify(h.events[post.event])

\* hist after the POSTs ps have been issued.
Issued(h, ps) ==
    [h EXCEPT !.sends = [e \in DOMAIN @ |->
                           @[e] + Cardinality({p \in ps : p.event = e})],
              !.bodies = [e \in DOMAIN @ |->
                            @[e] \cup {PostBody(h, p) :
                                          p \in {q \in ps : q.event = e}}]]

\* hist after the provider has built one more event object at time t.
Built(h, t) == [h EXCEPT !.events = Append(@, OfferedEvent(t))]

\* new NatsAdapter(config): the constructor starts checkConnection().
CreateNatsAdapter(retries) ==
    /\ ~nats.created
    /\ \E retry \in retries :
         nats' = [created |-> TRUE, retry |-> retry,
                  maxRetries |-> ConfiguredMaxRetries, eventQueue |-> <<>>,
                  isOnline |-> TRUE]
    /\ tasks' = [tasks EXCEPT !.startup = "pending"]
    /\ UNCHANGED <<bridge, hist>>
    /\ UNCHANGED uiVars

\* The startup probe is answered.
StartupProbeAnswered(answers) ==
    /\ tasks.startup = "pending"
    /\ \E answer \in Answerable(answers) :
         /\ nats' = [nats EXCEPT !.isOnline = CheckConnection(answer)]
         /\ tasks' = [tasks EXCEPT
                        !.startup = IF CheckConnection(answer) THEN "ok"
                                    ELSE "failed"]
    /\ UNCHANGED <<bridge, hist>>
    /\ UNCHANGED uiVars

\* A provider whose adapter is the NatsAdapter calls adapter.track(event).
NatsTrack ==
    /\ nats.created
    /\ hist.offered < MaxEvents
    /\ LET event == hist.offered + 1
           posts == NatsTrackPosts(nats, tasks.startup, event, "caller", <<>>)
       IN  /\ tasks' = [tasks EXCEPT !.posts = @ \cup posts]
           /\ hist' = [Issued(Built(hist, now), posts) EXCEPT
                                                  !.offered = event,
                                                  !.passed = @ \cup {event}]
    /\ UNCHANGED <<nats, bridge>>
    /\ UNCHANGED uiVars

\* The POST of a track invocation is answered and the invocation runs to
\* its end; a retryQueue invocation awaiting it goes on with its next event.
PostAnswered(answers) ==
    /\ \E p \in tasks.posts, answer \in Answerable(answers) :
         LET done == TrackCompletion(nats, p.event, answer)
             accepted == answer \in {"2xx-json", "2xx-other"}
             adapter == [nats EXCEPT !.eventQueue = done.eventQueue]
             next == IF /\ p.by = "retryQueue"
                        /\ p.rest # <<>>
                        /\ done.promise = "resolved"
                     THEN NatsTrackPosts(adapter, tasks.startup, Head(p.rest),
                                         "retryQueue", Tail(p.rest))
                     ELSE {}
         IN  /\ done.failed => hist.failures < MaxFailures
             /\ nats' = adapter
             /\ tasks' = [tasks EXCEPT !.posts = (@ \ {p}) \cup next,
                                       !.timers = @ + done.retryQueue]
             /\ bridge' = [bridge EXCEPT
                             !.received = IF accepted THEN Append(@, p.event)
                                          ELSE @]
             /\ hist' = [Issued(hist, next) EXCEPT
                           !.enqueued =
                               IF Len(done.eventQueue) > Len(nats.eventQueue)
                               THEN Append(@, p.event) ELSE @,
                           !.failures = @ + (IF done.failed THEN 1 ELSE 0),
                           !.last = [response |-> answer,
                                     promise |-> done.promise],
                           !.fouled = @ \/ (done.failed
                                            /\ (accepted \/ hist.draining))]
    /\ UNCHANGED uiVars

\* The setTimeout of a retryQueue invocation fires; it calls checkConnection().
RetryTimerFires ==
    /\ tasks.timers > 0
    /\ tasks' = [tasks EXCEPT !.timers = @ - 1, !.probes = @ + 1]
    /\ UNCHANGED <<nats, bridge, hist>>
    /\ UNCHANGED uiVars

\* The probe of a retryQueue invocation is answered: isOnline is set and
\* the invocation either returns or takes its snapshot and re-sends the
\* first event of it.
RetryProbeAnswered(answers) ==
    /\ tasks.probes > 0
    /\ \E answer \in Answerable(answers) :
         LET isOnline == CheckConnection(answer)
             snapshot == RetryAfterProbe(nats.eventQueue, isOnline)
             adapter == [nats EXCEPT !.isOnline = isOnline,
                                     !.eventQueue = snapshot.eventQueue]
             first == IF snapshot.eventsToRetry # <<>>
                      THEN NatsTrackPosts(adapter, tasks.startup,
                                          Head(snapshot.eventsToRetry),
                                          "retryQueue",
                                          Tail(snapshot.eventsToRetry))
                      ELSE {}
         IN  /\ nats' = adapter
             /\ tasks' = [tasks EXCEPT !.probes = @ - 1,
                                       !.posts = @ \cup first]
             /\ hist' = [Issued(hist, first) EXCEPT
                           !.draining = @ \/ snapshot.eventsToRetry # <<>>]
    /\ UNCHANGED bridge
    /\ UNCHANGED uiVars

\* The collector, or the network to it, goes away and comes back.
CollectorDown ==
    /\ bridge.reachable
    /\ bridge' = [bridge EXCEPT !.reachable = FALSE]
    /\ UNCHANGED <<nats, tasks, hist>>
    /\ UNCHANGED uiVars

CollectorUp ==
    /\ ~bridge.reachable
    /\ bridge' = [bridge EXCEPT !.reachable = TRUE]
    /\ UNCHANGED <<nats, tasks, hist>>
    /\ UNCHANGED uiVars

NextNats ==
    \/ CreateNatsAdapter(BOOLEAN)
    \/ StartupProbeAnswered(HealthAnswers)
    \/ NatsTrack
    \/ PostAnswered(PostAnswers)
    \/ RetryTimerFires
    \/ RetryProbeAnswered(HealthAnswers)
    \/ CollectorDown
    \/ CollectorUp

SpecNats == Init /\ [][NextNats]_vars

\* An outage and nothing else: every request is answered as the bridge of
\* this repository answers it while it is reachable, and not at all while it
\* is not.  Requests in flight are eventually answered and timers
\* eventually fire; nothing obliges a caller to track again.
NextOutage ==
    \/ CreateNatsAdapter(OnlyTrue)
    \/ StartupProbeAnswered(BridgeHealthAnswers)
    \/ NatsTrack
    \/ PostAnswered(OutagePostAnswers)
    \/ RetryTimerFires
    \/ RetryProbeAnswered(BridgeHealthAnswers)
    \/ CollectorDown
    \/ CollectorUp

SpecOutage ==
    /\ Init
    /\ [][NextOutage]_vars
    /\ WF_vars(StartupProbeAnswered(BridgeHealthAnswers))
    /\ WF_vars(PostAnswered(OutagePostAnswers))
    /\ WF_vars(RetryTimerFires)
    /\ WF_vars(RetryProbeAnswered(BridgeHealthAnswers))

(***************************************************************************)
(* The composite adapter of the Storybook preview.                         *)
(***************************************************************************)
\* What a call of the action sink may do.
SinkOutcomes == {"returns", "raises"}

\* compositeAdapter.track(event): action('analytics-event')(event), then
\* natsAdapter.track(event).  sink says whether the action sink returns or
\* raises; the result says which of the two received the event and whether
\* the call raised to the provider.
CompositeAdapterTrack(sink) ==
    [sunk |-> TRUE, nats |-> sink # "raises", raised |-> sink = "raises"]

\* A provider whose adapter is the composite adapter calls adapter.track.
CompositeTrack(sinks) ==
    /\ nats.created
    /\ hist.offered < MaxEvents
    /\ \E sink \in sinks :
         LET event == hist.offered + 1
             did == CompositeAdapterTrack(sink)
             posts == IF did.nats
                      THEN NatsTrackPosts(nats, tasks.startup, event, "caller",
                                          <<>>)
                      ELSE {}
         IN  /\ tasks' = [tasks EXCEPT !.posts = @ \cup posts]
             /\ hist' = [Issued(Built(hist, now), posts) EXCEPT
                           !.offered = event,
                           !.composite = @ \cup {event},
                           !.sunk = @ \cup (IF did.sunk THEN {event} ELSE {}),
                           !.passed = @ \cup (IF did.nats THEN {event} ELSE {})]
    /\ UNCHANGED <<nats, bridge>>
    /\ UNCHANGED uiVars

NextComposite ==
    \/ CreateNatsAdapter(OnlyTrue)
    \/ StartupProbeAnswered(BridgeHealthAnswers)
    \/ CompositeTrack(SinkOutcomes)
    \/ PostAnswered(BridgePostAnswers)
    \/ RetryTimerFires
    \/ RetryProbeAnswered(BridgeHealthAnswers)
    \/ CollectorDown
    \/ CollectorUp

SpecComposite == Init /\ [][NextComposite]_vars

\* The adapter against the bridge of this repository, with retry enabled,
\* while the clock advances between the sends.
NextResend ==
    \/ CreateNatsAdapter(OnlyTrue)
    \/ StartupProbeAnswered(BridgeHealthAnswers)
    \/ NatsTrack
    \/ PostAnswered(BridgePostAnswers)
    \/ RetryTimerFires
    \/ RetryProbeAnswered(BridgeHealthAnswers)
    \/ Tick

SpecResend == Init /\ [][NextResend]_vars

(***************************************************************************)
(* The bridge (src/demo/bridge.js): POST /analytics and the list of recent *)
(* events (SpecBridge, SpecRecent).                                        *)
(***************************************************************************)
SUBJECT == "analytics.events"

MAX_RECENT_EVENTS == 100

\* Request bodies, as express.json() parsed them: the body NatsAdapter
\* sends, an event without timestamp, bodies without eventType or
\* componentType, a body whose eventType is the empty string, and {}.
AdapterBody == JsonStringify(OfferedEvent(1))

UnstampedBody == [eventType |-> "click", componentType |-> "button"]

NoEventTypeBody == [componentType |-> "button"]

NoComponentTypeBody == [eventType |-> "click"]

EmptyEventTypeBody == [eventType |-> "", componentType |-> "button"]

PostBodies ==
    {AdapterBody, UnstampedBody, NoEventTypeBody, NoComponentTypeBody,
     EmptyEventTypeBody, EmptyCtx}

\* !event[key] for a key that holds a string when present.
NotString(event, key) == key \notin DOMAIN event \/ event[key] = ""

\* !event.timestamp
NotStamped(event) == "timestamp" \notin DOMAIN event \/ event.timestamp = 0

\* if (!event.timestamp) event.timestamp = Date.now()
ServerStamped(event, t) ==
    IF NotStamped(event) THEN Spread(event, [timestamp |-> t]) ELSE event

\* sc.encode(JSON.stringify(event)) and, for a message of another
\* publisher, bytes that are not JSON.
Encoded(event) == [text |-> "json", value |-> event]

Garbled == [text |-> "garbled"]

\* JSON.parse(sc.decode(msg.data)): throws on bytes that are not JSON.
JsonParse(data) ==
    IF data.text = "json" THEN [threw |-> FALSE, value |-> data.value]
    ELSE [threw |-> TRUE]

PostAnalyticsTrusting(connection, body, t) ==
    IF connection = "null" THEN [status |-> 503, published |-> <<>>]
    ELSE IF connection = "open"
    THEN [status |-> 200,
          published |-> <<[subject |-> SUBJECT,
                           data |-> Encoded(ServerStamped(body, t))]>>]
    ELSE [status |-> 500, published |-> <<>>]

\* The handler of POST /analytics: the status it answers and the messages
\* it publishes.  natsConnection.publish raises on a closed connection,
\* which the handler's catch block answers with 500.
PostAnalytics(connection, body, t) ==
    IF connection = "null" THEN [status |-> 503, published |-> <<>>]
    ELSE IF NotString(body, "eventType") \/ NotString(body, "componentType")
    THEN [status |-> 400, published |-> <<>>]
    ELSE IF connection = "open"
    THEN [status |-> 200,
          published |-> <<[subject |-> SUBJECT,
                           data |-> Encoded(ServerStamped(body, t))]>>]
    ELSE [status |-> 500, published |-> <<>>]

RecentAfterEvictsNewest(recent, event) ==
    LET list == <<event>> \o recent
    IN  IF Len(list) > MAX_RECENT_EVENTS THEN SubSeq(list, 2, Len(list))
        ELSE list

\* recentEvents.unshift(event); if (recentEvents.length > MAX_RECENT_EVENTS)
\* recentEvents.pop();
RecentAfter(recent, event) ==
    LET list == <<event>> \o recent
    IN  IF Len(list) > MAX_RECENT_EVENTS THEN SubSeq(list, 1, Len(list) - 1)
        ELSE list

\* connectToNATS(): connect() resolves and the subscription starts, or it
\* rejects and the function is scheduled again.
ConnectToNATS ==
    /\ bridge.natsConnection = "null"
    /\ \E connected \in BOOLEAN :
         bridge' = [bridge EXCEPT
                      !.natsConnection = IF connected THEN "open" ELSE @]
    /\ UNCHANGED <<nats, tasks, hist>>
    /\ UNCHANGED uiVars

\* The connection is closed: the shutdown handler awaits
\* natsConnection.close() while the server still accepts requests, or the
\* client gave up reconnecting.  natsConnection keeps the handle.
ConnectionCloses ==
    /\ bridge.natsConnection = "open"
    /\ bridge' = [bridge EXCEPT !.natsConnection = "closed"]
    /\ UNCHANGED <<nats, tasks, hist>>
    /\ UNCHANGED uiVars

\* A POST /analytics arrives and is handled.
PostAnalyticsHandled(bodies) ==
    /\ Len(bridge.subject) < MaxPublished
    /\ \E body \in bodies :
         LET did == PostAnalytics(bridge.natsConnection, body, now)
         IN  bridge' = [bridge EXCEPT
                          !.subject = @ \o did.published,
                          !.post = [body |-> body,
                                    connection |-> bridge.natsConnection,
                                    status |-> did.status,
                                    published |-> did.published]]
    /\ UNCHANGED <<nats, tasks, hist>>
    /\ UNCHANGED uiVars

\* The n-th event some publisher puts on the subject.
SubjectEvent(n) ==
    [eventType |-> "click", componentType |-> "button", timestamp |-> n]

\* The subscription of subscribeToEvents() yields a message: an encoded
\* event, or bytes JSON.parse rejects (the catch block logs and goes on).
MessageReceived ==
    /\ bridge.natsConnection = "open"
    /\ Len(bridge.heard) < MaxMessages
    /\ \E json \in BOOLEAN :
         LET data == IF json THEN Encoded(SubjectEvent(Len(bridge.heard) + 1))
                     ELSE Garbled
             event == JsonParse(data)
         IN  bridge' = IF event.threw
                       THEN [bridge EXCEPT !.skipped = TRUE]
                       ELSE [bridge EXCEPT
                               !.recentEvents = RecentAfter(@, event.value),
                               !.heard = Append(@, event.value)]
    /\ UNCHANGED <<nats, tasks, hist>>
    /\ UNCHANGED uiVars

NextBridge ==
    \/ ConnectToNATS
    \/ ConnectionCloses
    \/ PostAnalyticsHandled(PostBodies)
    \/ Tick

SpecBridge == Init /\ [][NextBridge]_vars

NextRecent ==
    \/ ConnectToNATS
    \/ MessageReceived

SpecRecent == Init /\ [][NextRecent]_vars

\* The body has both keys the bridge requires.
HasRequiredKeys(body) ==
    "eventType" \in DOMAIN body /\ "componentType" \in DOMAIN body

\* C29 as stated: a POST that meets no live NATS connection is answered 503,
\* a POST whose body lacks eventType or componentType is answered 400, and
\* neither publishes; every other POST publishes exactly one message on the
\* subject and is answered 200.
C29_EveryOtherPostPublished ==
    bridge.post.status # 0 =>
        IF bridge.post.connection # "open"
        THEN bridge.post.status = 503 /\ bridge.post.published = <<>>
        ELSE IF ~HasRequiredKeys(bridge.post.body)
        THEN bridge.post.status = 400 /\ bridge.post.published = <<>>
        ELSE /\ bridge.post.status = 200
             /\ Len(bridge.post.published) = 1
             /\ bridge.post.published[1].subject = SUBJECT

\* C29 amended: a POST handled before the bridge has connected is answered
\* 503; otherwise a POST whose body has no eventType or componentType, or an
\* empty one, is answered 400; neither publishes.  Every other POST
\* publishes exactly one message on the subject, the body with a timestamp
\* added if it had none, and is answered 200, unless the connection has
\* been closed: then publishing raises, nothing is published and the answer
\* is 500.  What is on the subject is what the POSTs published, in order.
C29_PublishesOnlyWellFormed ==
    /\ bridge.post.status # 0 =>
          IF bridge.post.connection = "null"
          THEN bridge.post.status = 503 /\ bridge.post.published = <<>>
          ELSE IF \/ NotString(bridge.post.body, "eventType")
                  \/ NotString(bridge.post.body, "componentType")
          THEN bridge.post.status = 400 /\ bridge.post.published = <<>>
          ELSE IF bridge.post.connection = "closed"
          THEN bridge.post.status = 500 /\ bridge.post.published = <<>>
          ELSE /\ bridge.post.status = 200
               /\ Len(bridge.post.published) = 1
               /\ bridge.post.published[1].subject = SUBJECT
               /\ LET sent == JsonParse(bridge.post.published[1].data).value
                  IN  /\ \A k \in DOMAIN bridge.post.body :
                            k # "timestamp" => sent[k] = bridge.post.body[k]
                      /\ "timestamp" \in DOMAIN sent
                      /\ ~NotStamped(bridge.post.body) =>
                            sent.timestamp = bridge.post.body.timestamp
    /\ \A i \in 1..Len(bridge.subject) :
          /\ bridge.subject[i].subject = SUBJECT
          /\ ~JsonParse(bridge.subject[i].data).threw
          /\ ~NotString(JsonParse(bridge.subject[i].data).value, "eventType")
          /\ ~NotString(JsonParse(bridge.subject[i].data).value,
                        "componentType")

\* C29 witness: with the connection open, the body NatsAdapter sends was
\* posted after an event had already been published; it was answered 200
\* and is the second message on the subject.
C29_Witness ==
    /\ bridge.post.status = 200
    /\ bridge.post.connection = "open"
    /\ bridge.post.body = AdapterBody
    /\ Len(bridge.subject) = 2
    /\ bridge.subject[2] = bridge.post.published[1]

\* The smaller of two numbers.
Min(a, b) == IF a <= b THEN a ELSE b

\* C30: after any sequence of messages the list of recent events holds at
\* most MAX_RECENT_EVENTS events; they are the events received last, the
\* newest first, so the one evicted when the bound is exceeded is the
\* oldest.
C30_RecentIsBoundedNewestFirst ==
    LET n == Len(bridge.heard)
        k == Min(n, MAX_RECENT_EVENTS)
    IN  /\ Len(bridge.recentEvents) = k
        /\ \A i \in 1..k : bridge.recentEvents[i] = bridge.heard[n - i + 1]

\* C30 witness: more events than the bound have been received, a message
\* that did not parse among the messages; the list is full and starts with
\* the newest event.
C30_Witness ==
    /\ Len(bridge.heard) > MAX_RECENT_EVENTS
    /\ bridge.skipped
    /\ Len(bridge.recentEvents) = MAX_RECENT_EVENTS
    /\ bridge.recentEvents[1] = bridge.heard[Len(bridge.heard)]

(***************************************************************************)
(* Delivery and retry (SpecNats, SpecOutage, SpecComposite).               *)
(***************************************************************************)
Range(seq) == {seq[i] : i \in 1..Len(seq)}

\* Where the adapter holds an event: the retry queue, a POST in flight, or
\* the part of a drain snapshot still to be re-sent.
Queued == Range(nats.eventQueue)

InFlight == {p.event : p \in tasks.posts}

InSnapshot == UNION {Range(p.rest) : p \in tasks.posts}

\* The events the collector answered 2xx.
Accepted == Range(bridge.received)

RetryPosts == {p \in tasks.posts : p.by = "retryQueue"}

\* C12: however the POST was answered (2xx with or without a JSON body,
\* another status, no answer) and whether retry is enabled or not, the
\* promise of the track invocation resolves and is not rejected.
C12_TrackNeverRejects ==
    hist.last.response \in PostAnswers => hist.last.promise = "resolved"

\* C12 witness: with retry disabled, a send that met a network error has
\* completed and its promise resolved.
C12_Witness ==
    /\ nats.created /\ ~nats.retry
    /\ hist.last.response = "network-error"
    /\ hist.last.promise = "resolved"

\* The number of places in which the adapter holds event e: positions of
\* the retry queue, POSTs in flight, positions of the drain snapshots.
InQueue(e) == {i \in 1..Len(nats.eventQueue) : nats.eventQueue[i] = e}

InSends(e) == {q \in tasks.posts : q.event = e}

InSnapshots(e) ==
    {qi \in UNION {{<<q, i>> : i \in 1..Len(q.rest)} : q \in tasks.posts} :
        qi[1].rest[qi[2]] = e}

Held(e) ==
    Cardinality(InQueue(e)) + Cardinality(InSends(e))
        + Cardinality(InSnapshots(e))

IsSuffix(q, seq) ==
    /\ Len(q) <= Len(seq)
    /\ q = SubSeq(seq, Len(seq) - Len(q) + 1, Len(seq))

\* C22: under every interleaving of track calls, failing sends and retry
\* procedures, no event is held twice by the adapter; with retry enabled an
\* event the collector has not received is held in exactly one place (the
\* retry queue, a drain snapshot or a send in flight); the retry queue
\* holds the events that failed since the last snapshot was taken, in the
\* order in which they failed, and none of them is in a running drain.
C22_HeldInOnePlace ==
    /\ \A e \in 1..MaxEvents : Held(e) <= 1
    /\ nats.retry => \A e \in hist.passed \ Accepted : Held(e) = 1
    /\ IsSuffix(nats.eventQueue, hist.enqueued)
    /\ Queued \cap (InFlight \cup InSnapshot) = {}

\* C22 witness: while a drain is re-sending one event, a send of another
\* event has failed and that event sits in the fresh queue.
C22_Witness ==
    /\ nats.retry
    /\ RetryPosts # {}
    /\ nats.eventQueue # <<>>
    /\ \A e \in Queued : Held(e) = 1

\* C23: when the health probe of a retry procedure reports offline (a status
\* that is not 2xx, or no answer), the procedure ends there: the retry queue
\* is what it was, no POST is issued and no snapshot is taken.
C23_OfflineProbeLeavesQueue ==
    [][(tasks'.probes < tasks.probes /\ ~nats'.isOnline) =>
           /\ nats'.eventQueue = nats.eventQueue
           /\ tasks'.posts = tasks.posts
           /\ tasks'.timers = tasks.timers
           /\ hist'.sends = hist.sends]_vars

\* C23 witness: the startup probe had found the collector online, a retry
\* procedure's probe then found it offline and the procedure has ended: the
\* queue still holds its events and nothing is pending.
C23_Witness ==
    /\ tasks.startup = "ok"
    /\ ~nats.isOnline
    /\ Len(nats.eventQueue) = 2
    /\ nats.eventQueue = hist.enqueued
    /\ tasks.posts = {} /\ tasks.timers = 0 /\ tasks.probes = 0

\* C24: every POST issued for an event, the first and each re-send by the
\* retry procedure, carries the same body: the serialization of the event
\* object as the provider finalized it, with its eventType, componentType,
\* metadata, context and original timestamp.
C24_ResendCarriesSamePayload ==
    \A e \in 1..hist.offered :
        /\ hist.bodies[e] \subseteq {JsonStringify(hist.events[e])}
        /\ \A body \in hist.bodies[e] :
              /\ body.timestamp = hist.events[e].timestamp
              /\ body.eventType = CustomEvent.eventType
              /\ body.componentType = CustomEvent.componentType
              /\ body.metadata = CustomEvent.metadata
              /\ body.context = CustomEvent.context

\* C24 witness: an event was sent, failed, was re-sent by the retry
\* procedure after the clock had advanced, and was accepted.
C24_Witness ==
    \E e \in 1..hist.offered :
        /\ hist.sends[e] = 2
        /\ e \in Range(hist.enqueued)
        /\ e \in Accepted
        /\ hist.events[e].timestamp < now
        /\ Cardinality(hist.bodies[e]) = 1

\* The events that went through the retry queue, in the order in which the
\* collector accepted them.
AcceptedRetries ==
    SelectSeq(bridge.received, LAMBDA e : e \in Range(hist.enqueued))

\* What a running drain still has to re-send, in order.
Outstanding ==
    IF RetryPosts = {} THEN <<>>
    ELSE LET p == CHOOSE q \in RetryPosts : TRUE
         IN  <<p.event>> \o p.rest

\* C13: with retry enabled, as long as no send answered 2xx was queued and no
\* send has failed since a drain began, the queued events the collector has
\* accepted, followed by those the drain still holds and those still in the
\* queue, are the events in the order of their enqueuing: each is accepted
\* once, in that order, and once nothing is pending all of them are.
C13_DrainInOrderExactlyOnce ==
    (nats.retry /\ ~hist.fouled) =>
        /\ AcceptedRetries \o Outstanding \o nats.eventQueue = hist.enqueued
        /\ (hist.draining /\ tasks.posts = {}) =>
               AcceptedRetries = hist.enqueued

\* C13 witness: two events failed while the collector was away, the second
\* being queued first; after the drain the collector has both, in the order
\* of the queue.
C13_Witness ==
    /\ nats.retry /\ ~hist.fouled /\ hist.draining
    /\ tasks.posts = {}
    /\ hist.enqueued = <<2, 1>>
    /\ bridge.received = <<2, 1>>

\* C14: if from some point on the collector stays reachable, the retry queue
\* is eventually emptied for good, whether or not anything is tracked again.
C14_QueueEventuallyDelivered ==
    (<>[](bridge.reachable)) => <>[](nats.eventQueue = <<>>)

\* C15: with retry enabled, every event passed to track that the collector
\* has not accepted is in flight, in a drain snapshot or in the retry queue.
C15_NeverDropped ==
    nats.retry =>
        \A e \in hist.passed :
            e \in Accepted \/ e \in InFlight \/ e \in InSnapshot \/ e \in Queued

\* C15 witness: an event was sent, failed, was re-sent by a drain, failed
\* again and is back in the retry queue.
C15_Witness ==
    /\ nats.retry
    /\ \E e \in hist.passed :
         /\ hist.sends[e] = 2
         /\ e \in Queued
         /\ e \notin Accepted
         /\ e \notin InFlight

\* C16: an event whose POST was answered 2xx is not in the retry queue, not
\* in a drain snapshot and not being sent again, and the collector has
\* accepted it once.
C16_AcceptedNeverRequeued ==
    \A e \in Accepted :
        /\ e \notin Queued
        /\ e \notin InSnapshot
        /\ e \notin InFlight
        /\ Cardinality({i \in 1..Len(bridge.received) : bridge.received[i] = e}) = 1

\* C17: no event is re-sent more than maxRetries times (its sends are the
\* first one and the re-sends).
C17_ResendsBounded ==
    \A e \in hist.passed : hist.sends[e] - 1 <= nats.maxRetries

\* C18: every event passed to track has had its POST issued, whatever
\* isOnline was and whatever the state of the startup probe.
C18_PostWhateverOnline ==
    \A e \in hist.passed : hist.sends[e] >= 1

\* C18 witness: two POSTs of callers are in flight, one issued while the
\* startup probe was pending, the other after it had failed, isOnline
\* being false.
C18_Witness ==
    \E p, q \in tasks.posts :
        /\ p.by = "caller" /\ p.startup = "pending"
        /\ q.by = "caller" /\ q.startup = "failed" /\ ~q.online

\* C19: with retry disabled the retry queue is empty, nothing has ever been
\* pushed on it, no retryQueue invocation is waiting, probing or re-sending,
\* and every event has been sent at most once.
C19_NoRetryWhenDisabled ==
    (nats.created /\ ~nats.retry) =>
        /\ nats.eventQueue = <<>>
        /\ hist.enqueued = <<>>
        /\ tasks.timers = 0 /\ tasks.probes = 0
        /\ RetryPosts = {}
        /\ \A e \in 1..MaxEvents : hist.sends[e] <= 1

\* C19 witness: with retry disabled, two sends have failed.
C19_Witness ==
    /\ nats.created /\ ~nats.retry
    /\ hist.failures = 2
    /\ tasks.posts = {}

\* C20: every event handed to the composite adapter reaches the action sink
\* and NatsAdapter.track, whether or not the action sink raises.
C20_FanOutUnsuppressed ==
    \A e \in hist.composite : e \in hist.sunk /\ e \in hist.passed

(***************************************************************************)
(* Context resolution (SpecContext).                                       *)
(***************************************************************************)
IsProvider(i) == chain[i].kind = "AnalyticsProvider"

\* One AnalyticsProvider at the root, AnalyticsContextProviders below it.
RootedChain ==
    /\ Len(chain) >= 1
    /\ IsProvider(1)
    /\ \A i \in 2..Len(chain) : ~IsProvider(i)

\* The scopes lo..Len(chain) whose own context has key k.
Contributors(lo, k) == {i \in lo..Len(chain) : k \in DOMAIN chain[i].context}

\* The scopes lo..Len(chain) whose own custom mapping has key ck.
CustomContributors(lo, ck) ==
    {i \in Contributors(lo, "custom") : ck \in DOMAIN chain[i].context["custom"]}

Innermost(S) == CHOOSE m \in S : \A x \in S : x <= m

\* The depth of the nearest AnalyticsProvider at or above the innermost scope.
NearestProvider == Innermost({i \in 1..Len(chain) : IsProvider(i)})

Delivered == outcome.op = "track" /\ Len(outcome.calls) = 1

DeliveredContext == outcome.calls[1].event.context

\* Key k of the delivered context is the value of the innermost scope, among
\* lo..Len(chain), that contributes k, and is absent when none does.
ResolvedFrom(lo, k) ==
    LET cs == Contributors(lo, k)
    IN  IF cs = {} THEN k \notin DOMAIN DeliveredContext
        ELSE /\ k \in DOMAIN DeliveredContext
             /\ DeliveredContext[k] = chain[Innermost(cs)].context[k]

\* C1: under an AnalyticsProvider with AnalyticsContextProviders nested in it,
\* an event tracked from the innermost scope is delivered with, for every
\* top-level field, the value of the innermost scope contributing that field.
C1_InnermostFieldWins ==
    (outcome.op = "track" /\ RootedChain) =>
        /\ Len(outcome.calls) = 1
        /\ \A f \in Fields : ResolvedFrom(1, f)

\* C1 witness: three scopes, the two inner ones both contribute `section`,
\* and the event carries the innermost one's.
C1_Witness ==
    /\ Delivered /\ RootedChain /\ Len(chain) = 3
    /\ "section" \in DOMAIN chain[2].context
    /\ "section" \in DOMAIN chain[3].context
    /\ DeliveredContext["section"] = 3

\* C2: the custom mappings of nested scopes are merged key by key: every
\* custom key some scope contributes is in the delivered custom mapping,
\* with the value of the innermost scope contributing that key.
C2_CustomMergedKeyByKey ==
    (Delivered /\ RootedChain) =>
        \A ck \in CustomKeys :
            LET cs == CustomContributors(1, ck)
            IN  cs # {} =>
                  /\ "custom" \in DOMAIN DeliveredContext
                  /\ ck \in DOMAIN DeliveredContext["custom"]
                  /\ DeliveredContext["custom"][ck]
                       = chain[Innermost(cs)].context["custom"][ck]

Depth == Len(chain)

HasAdapter(i) == IsProvider(i) /\ chain[i].adapter # "none"

\* adapter.track is a function.
Callable(i) == IsProvider(i) /\ chain[i].adapter \in {"ok", "throws"}

\* Several nested scopes, each with an adapter of its own.
AllOwnAdapters == Depth >= 2 /\ \A i \in 1..Depth : HasAdapter(i)

CallsOnlyTo(i) == \A j \in 1..Len(outcome.calls) : outcome.calls[j].adapter = i

\* C4: when several nested scopes each carry their own adapter, a track call
\* from the innermost scope invokes no ancestor's adapter, invokes the
\* innermost scope's adapter at most once, and exactly once when that scope
\* is enabled and its adapter's track is callable.
C4_SingleAdapterDelivery ==
    (outcome.op = "track" /\ AllOwnAdapters) =>
        /\ CallsOnlyTo(Depth)
        /\ Len(outcome.calls) <= 1
        /\ (chain[Depth].enabled /\ Callable(Depth)) => Len(outcome.calls) = 1

\* C4 witness: three providers with adapters; the event reached adapter 3 only.
C4_Witness ==
    /\ outcome.op = "track" /\ AllOwnAdapters /\ Depth = 3
    /\ \A i \in 1..Depth : chain[i].enabled /\ Callable(i)
    /\ Len(outcome.calls) = 1
    /\ outcome.calls[1].adapter = 3

\* The nearest ancestor of the innermost scope that has an adapter.
AncestorsWithAdapter == {i \in 1..(Depth - 1) : HasAdapter(i)}

AllEnabled == \A i \in 1..Depth : chain[i].enabled

C6_DisabledShortCircuit ==
    (outcome.op = "track" /\ Depth >= 1 /\ IsProvider(Depth)
     /\ ~chain[Depth].enabled) =>
        /\ ~outcome.raised
        /\ outcome.calls = <<>>
        /\ outcome.finalized = <<>>

\* C6 witness: a disabled provider with an adapter, under an enabled one,
\* has been asked to track.
C6_Witness ==
    /\ outcome.op = "track" /\ outcome.tracked = 1 /\ Depth = 2
    /\ Callable(1) /\ chain[1].enabled
    /\ Callable(2) /\ ~chain[2].enabled
    /\ outcome.calls = <<>>

(***************************************************************************)
(* Controls under scopes (SpecControls).                                   *)
(***************************************************************************)
\* The handlers a user interaction runs.
InteractionOps ==
    {"Button.click", "TextBox.focus", "TextBox.blur", "TextBox.change",
     "DatePicker.open", "DatePicker.clickOutside", "DatePicker.select",
     "Popup.effect", "Popup.close"}

\* The handlers that call a caller-supplied handler (onClick, onFocus, onBlur,
\* onChange, onClose).
ForwardingOps ==
    {"Button.click", "TextBox.focus", "TextBox.blur", "TextBox.change",
     "DatePicker.select", "Popup.close"}

SomeProviderDisabled == \E i \in 1..Depth : IsProvider(i) /\ ~chain[i].enabled

\* C7: below an AnalyticsProvider with enabled=false, whatever scopes lie in
\* between, no user interaction with a control invokes any adapter.
C7_DisabledCoversSubtree ==
    (outcome.op \in InteractionOps /\ SomeProviderDisabled) =>
        outcome.calls = <<>>

\* C8: an adapter whose track raises does not make the provider's track raise
\* to its caller, and a Button click still calls the supplied onClick.
C8_AdapterFailureContained ==
    /\ outcome.error # AdapterError
    /\ (outcome.op = "Button.click" /\ outcome.props.handler) =>
           outcome.handlerCalls = 1

C10_NoAnalyticsNoEffect ==
    (outcome.op \in InteractionOps
     /\ (outcome.props.disableAnalytics \/ chain = <<>>)) =>
        /\ outcome.tracked = 0
        /\ outcome.calls = <<>>
        /\ ~outcome.raised
        /\ (outcome.op \in ForwardingOps /\ outcome.props.handler) =>
               outcome.handlerCalls = 1
        /\ ~outcome.props.handler => outcome.handlerCalls = 0

\* C10 witness: a TextBox with disableAnalytics, under an enabled provider
\* with a working adapter, has been blurred and onBlur was called.
C10_Witness ==
    /\ outcome.op = "TextBox.blur"
    /\ outcome.props.disableAnalytics /\ ~outcome.props.disabled
    /\ outcome.props.handler
    /\ Depth >= 1 /\ Callable(Depth) /\ chain[Depth].enabled
    /\ outcome.tracked = 0
    /\ outcome.handlerCalls = 1

\* C21: when the adapter of the provider a track call reaches has no callable
\* track, the call reports it on the diagnostic channel, raises nothing and
\* delivers nothing; a later call, made after the provider was given a
\* well-formed adapter, is delivered to that adapter exactly once.
C21_MalformedAdapterAbandoned ==
    (/\ outcome.op = "track"
     /\ \E i \in 1..Depth : IsProvider(i)
     /\ chain[NearestProvider].enabled) =>
        /\ chain[NearestProvider].adapter = "malformed" =>
             /\ Abandoned(outcome.diag)
             /\ ~outcome.raised
             /\ outcome.calls = <<>>
        /\ (outcome.abandoned /\ Callable(NearestProvider)) =>
             /\ Len(outcome.calls) = 1
             /\ outcome.calls[1].adapter = NearestProvider
             /\ ~Abandoned(outcome.diag)
             /\ chain[NearestProvider].adapter = "ok" => ~outcome.raised

\* C21 witness: a call was abandoned for a malformed adapter, the provider
\* was then given a working adapter, and the next call was delivered.
C21_Witness ==
    /\ outcome.op = "track"
    /\ outcome.abandoned
    /\ Depth >= 1 /\ IsProvider(Depth)
    /\ chain[Depth].enabled /\ chain[Depth].adapter = "ok"
    /\ Len(outcome.calls) = 1
    /\ ~outcome.raised

\* C25: below AnalyticsContextProviders that no AnalyticsProvider encloses,
\* useAnalytics returns a value without raising, and a track call made
\* through it raises nothing, finalizes nothing and reaches no adapter.
C25_OrphanContextProviderInert ==
    (/\ outcome.op = "track"
     /\ Depth >= 1
     /\ \A i \in 1..Depth : ~IsProvider(i)) =>
        /\ ~outcome.raised
        /\ outcome.error = ""
        /\ outcome.tracked = 1
        /\ outcome.calls = <<>>
        /\ outcome.finalized = <<>>

\* C25 witness: two nested AnalyticsContextProviders and no provider; the
\* track call was made and ended in the outer one's warning.
C25_Witness ==
    /\ outcome.op = "track"
    /\ Depth = 2
    /\ \A i \in 1..Depth : ~IsProvider(i)
    /\ outcome.tracked = 1
    /\ outcome.diag = <<"used without parent AnalyticsProvider">>

(***************************************************************************)
(* Open and close events of the Popup and the DatePicker (SpecControls).   *)
(***************************************************************************)
\* A provider is reachable and the render's disableAnalytics is not set.
TrackingOn == chain # <<>> /\ ~outcome.props.disableAnalytics

\* C26: after a render of a Popup whose analytics is on, the open effect has
\* tracked exactly one 'open' event if isOpen went from false to true with
\* that render (a mount with isOpen set included), and none otherwise: not
\* while isOpen stays true, whatever made the effect run again, and not
\* when it closes.  Closing never tracks 'open'.
C26_OneOpenPerTransition ==
    /\ (outcome.op = "Popup.effect" /\ TrackingOn) =>
           outcome.types = IF ~outcome.wasOpen /\ control.isOpen
                           THEN <<"open">> ELSE <<>>
    /\ outcome.op = "Popup.close" => \A i \in 1..Len(outcome.types) :
                                          outcome.types[i] # "open"

\* C26 witness: an open Popup was rendered again, still open, with analytics
\* on and below an enabled provider with a working adapter; the effect ran
\* and tracked nothing.
C26_Witness ==
    /\ outcome.op = "Popup.effect" /\ TrackingOn
    /\ chain[Len(chain)].kind = "AnalyticsProvider"
    /\ chain[Len(chain)].enabled /\ chain[Len(chain)].adapter = "ok"
    /\ outcome.wasOpen /\ control.isOpen
    /\ control.hasTrackedOpen
    /\ outcome.types = <<>>

\* C27: below a provider, every transition of a Popup from open to closed,
\* whoever caused it, follows a 'close' event (or a handleClose whose
\* tracking was switched off by disableAnalytics), and no 'close' event is
\* tracked for a Popup that then stays open.
C27_CloseOnEveryTransition ==
    (outcome.op = "Popup.effect" /\ chain # <<>> /\ outcome.wasOpen) =>
        /\ ~control.isOpen => control.closed # "no"
        /\ control.isOpen => control.closed # "tracked"

\* C28: a DatePicker tracks 'open' only when its calendar goes from closed
\* to open, and selecting a date tracks 'select' followed by one 'close'.
C28_OpenOnlyOnTransition ==
    /\ (outcome.op = "DatePicker.open" /\ outcome.types # <<>>) =>
           ~outcome.wasOpen /\ control.isOpen
    /\ (outcome.op = "DatePicker.select" /\ TrackingOn /\ ~outcome.raised) =>
           outcome.types = <<"select", "close">>

(***************************************************************************)
(* Timestamps (SpecClock).                                                 *)
(***************************************************************************)
\* The timestamp of the event the adapter received in the last track call.
ReceivedStamp == outcome.calls[1].event.timestamp

\* C11: every event that reaches an adapter carries the timestamp the
\* provider's track read from the clock, also when the caller left one of
\* its own in the event: it lies between the instant track was invoked and
\* the instant the adapter had received the event, and is not smaller than
\* the timestamp the adapter received from the previous track call on the
\* same scope.
C11_TimestampFromProvider ==
    (outcome.op = "track" /\ outcome.calls # <<>>) =>
        /\ outcome.invokedAt <= ReceivedStamp
        /\ ReceivedStamp <= outcome.receivedAt
        /\ outcome.prevStamp <= ReceivedStamp

\* C11 witness: the caller left a stale timestamp in its event, the clock
\* advanced before and after the provider read it, and an earlier event of
\* the same scope had been received with a smaller timestamp.
C11_Witness ==
    /\ outcome.op = "track" /\ outcome.calls # <<>>
    /\ outcome.stamped
    /\ outcome.prevStamp >= 0
    /\ outcome.prevStamp < ReceivedStamp
    /\ outcome.invokedAt < ReceivedStamp
    /\ ReceivedStamp < outcome.receivedAt

\* Providers with or without a working adapter; the clock advances between
\* track calls and while one runs.
NextClock ==
    \/ EnterProvider(OptionalAdapters, OnlyTrue, PlainContexts(Len(chain) + 1))
    \/ EnterContextProvider(PlainContexts(Len(chain) + 1))
    \/ ExitScope
    \/ Tick
    \/ Track(ClockEvents, Delays)

SpecClock == Init /\ [][NextClock]_vars

NextContext ==
    \/ EnterProvider(OkAdapters, OnlyTrue, RichContexts(Len(chain) + 1))
    \/ EnterContextProvider(RichContexts(Len(chain) + 1))
    \/ ExitScope
    \/ Track(PlainEvents, NoDelay)

SpecContext == Init /\ [][NextContext]_vars

Next ==
    \/ EnterProvider(AdapterKinds, BOOLEAN, PlainContexts(Len(chain) + 1))
    \/ EnterContextProvider(PlainContexts(Len(chain) + 1))
    \/ ExitScope
    \/ ReplaceAdapter(AdapterKinds)
    \/ Tick
    \/ Track(PlainEvents, NoDelay)

Spec == Init /\ [][Next]_vars
====
